---- MODULE Spec2Model ----
(***************************************************************************)
(* Model of src/main.py: the URL resolver (parse_book_url), the catalog    *)
(* reader (book_info_from_table), the single-book downloader               *)
(* (download_book) and the batch coordinator (download_books) running on   *)
(* a ThreadPoolExecutor.                                                   *)
(*                                                                         *)
(* Python strings are sequences of one-character strings, so that          *)
(* str.replace, urllib.parse.unquote, os.path.split and str.translate are  *)
(* computed character by character as the library computes them.           *)
(***************************************************************************)
EXTENDS Integers, Sequences, FiniteSets, TLC

(***************************************************************************)
(* Bounds of the model.                                                    *)
(***************************************************************************)
\* longest catalog (number of rows of the book table)
MaxBooks == 2
\* largest max_workers the batch is run with
MaxWorkers == 2
\* number of times the program is run against the same destination
MaxRuns == 2

(***************************************************************************)
(* String literals of the source.                                          *)
(***************************************************************************)
PDF == <<"p", "d", "f">>
EPUB == <<"e", "p", "u", "b">>
BOOK == <<"b", "o", "o", "k">>
CONTENT == <<"c", "o", "n", "t", "e", "n", "t", "/">>
DOWNLOAD == <<"d", "o", "w", "n", "l", "o", "a", "d", "/">>
DOT == <<".">>
JOINER == <<" ", "-", " ">>
\* status code the downloader accepts
HTTP_OK == 200
\* the status codes of the modelled responses: 200 and one other, 404
StatusCodes == {HTTP_OK, 404}

(***************************************************************************)
(* Library functions on strings.                                           *)
(***************************************************************************)
Max(S) == CHOOSE m \in S : \A n \in S : n <= m

\* str.lower on the letters the formats are written with
lower(s) ==
  LET up == <<"P", "D", "F", "E", "U", "B", "M", "O", "I">>
      lo == <<"p", "d", "f", "e", "u", "b", "m", "o", "i">>
      low(c) == IF \E k \in 1..Len(up) : up[k] = c
                THEN lo[CHOOSE k \in 1..Len(up) : up[k] = c]
                ELSE c
  IN [k \in 1..Len(s) |-> low(s[k])]

\* the percent escapes that occur in the modelled URLs: %2F, %2f, %20, %25
PercentEscapes == {<<"2", "F">>, <<"2", "f">>, <<"2", "0">>, <<"2", "5">>}

PercentDecoded(h1, h2) ==
  IF h2 \in {"F", "f"} THEN "/" ELSE IF h2 = "0" THEN " " ELSE "%"

\* urllib.parse.unquote: every %XX escape becomes its character, in one
\* pass; a "%" that starts no escape is kept
RECURSIVE unquote(_)
unquote(s) ==
  IF s = <<>> THEN <<>>
  ELSE IF Head(s) = "%" /\ Len(s) >= 3 /\ <<s[2], s[3]>> \in PercentEscapes
       THEN <<PercentDecoded(s[2], s[3])>> \o unquote(SubSeq(s, 4, Len(s)))
       ELSE <<Head(s)>> \o unquote(Tail(s))

\* str.replace(old, new) without a count: every non-overlapping occurrence
\* of old, scanning from the left, is replaced
RECURSIVE replace(_, _, _)
replace(s, old, new) ==
  IF Len(s) < Len(old) THEN s
  ELSE IF SubSeq(s, 1, Len(old)) = old
       THEN new \o replace(SubSeq(s, Len(old) + 1, Len(s)), old, new)
       ELSE <<Head(s)>> \o replace(Tail(s), old, new)

\* os.path.split(p): <<head, tail>>, tail is what follows the last "/"
os_path_split(p) ==
  LET slashes == {k \in 1..Len(p) : p[k] = "/"}
      cut == IF slashes = {} THEN 0 ELSE Max(slashes)
      head == SubSeq(p, 1, cut)
      nonslash == {k \in 1..cut : p[k] # "/"}
      stripped == IF nonslash = {} THEN head ELSE SubSeq(p, 1, Max(nonslash))
  IN <<stripped, SubSeq(p, cut + 1, Len(p))>>

\* a translate with an empty replacement table (mutant of translate)
translate_nothing(s) == s

\* s.translate(str.maketrans({"/": "_"}))
translate(s) == [k \in 1..Len(s) |-> IF s[k] = "/" THEN "_" ELSE s[k]]

\* pathlib's a / b for a relative b
path_join(a, b) == a \o <<"/">> \o b

\* a resolver without the else branch of lines 31-32: any format that is
\* not pdf goes the epub way (mutant of parse_book_url)
parse_book_url_unchecked(url, title, author, format_) ==
  LET fmt == lower(format_)
      prefix == IF fmt = PDF THEN CONTENT ELSE DOWNLOAD
      download_url == replace(unquote(url), BOOK, prefix \o fmt) \o DOT \o fmt
  IN [raised |-> "none", download_url |-> download_url,
      new_fname |-> translate(title) \o JOINER \o translate(author)
                    \o JOINER \o os_path_split(download_url)[2]]

\* an empty cell of the spreadsheet: pandas hands it over as the float nan,
\* which is no str
NaN == <<"nan">>

(***************************************************************************)
(* parse_book_url(url, title, author, format_): the download URL and the   *)
(* local file name, or the ValueError of an unsupported format, or the     *)
(* AttributeError of a title or an author that is no str (lines 43-44).    *)
(***************************************************************************)
parse_book_url(url, title, author, format_) ==
  LET fmt == lower(format_)
      decoded == unquote(url)
      supported == fmt \in {PDF, EPUB}
      replaced == IF fmt = PDF THEN replace(decoded, BOOK, CONTENT \o fmt)
                  ELSE replace(decoded, BOOK, DOWNLOAD \o fmt)
      download_url == replaced \o DOT \o fmt
      original_fname == os_path_split(download_url)[2]
      new_fname == translate(title) \o JOINER \o translate(author)
                   \o JOINER \o original_fname
  IN IF ~supported
     THEN [raised |-> "ValueError", download_url |-> <<>>, new_fname |-> <<>>]
     ELSE IF title = NaN \/ author = NaN
     THEN [raised |-> "AttributeError", download_url |-> <<>>,
           new_fname |-> <<>>]
     ELSE [raised |-> "none", download_url |-> download_url,
           new_fname |-> new_fname]

\* a reader that yields the rows last to first (mutant of
\* book_info_from_table)
book_info_reversed(book_table) ==
  [k \in 1..Len(book_table) |->
     LET row == book_table[Len(book_table) + 1 - k]
     IN [title |-> row.title, author |-> row.author, pkg |-> row.pkg,
         url |-> row.url]]

(***************************************************************************)
(* book_info_from_table(book_table): one dict per row, in row order, the   *)
(* package name with spaces turned into "_" and commas removed.            *)
(***************************************************************************)
book_info_from_table(book_table) ==
  [k \in 1..Len(book_table) |->
     [title |-> book_table[k].title,
      author |-> book_table[k].author,
      pkg |-> replace(replace(book_table[k].pkg, <<" ">>, <<"_">>),
                      <<",">>, <<>>),
      url |-> book_table[k].url]]

\* line 66: pkg.replace raises AttributeError when the package name of a
\* row is no str; list(...) at line 117 then raises before any submit
book_info_raises(book_table) ==
  \E k \in 1..Len(book_table) : book_table[k].pkg = NaN

(***************************************************************************)
(* The inputs the runs are drawn from.                                     *)
(***************************************************************************)
\* landing-page URLs of the catalog (the OpenURL column)
OpenUrl1 == <<"o", "?", "1">>
OpenUrl2 == <<"o", "?", "2">>
\* URLs a landing page resolves to: /book/1%2F2 and /book/book%2F3
Landing1 == <<"/">> \o BOOK \o <<"/", "1", "%", "2", "F", "2">>
Landing2 == <<"/">> \o BOOK \o <<"/">> \o BOOK \o <<"%", "2", "F", "3">>

\* rows of the spreadsheet: "Book Title", "Author", "English Package
\* Name", "OpenURL"; odd and even rows differ in their OpenURL only, so that
\* two books name the same file when their landing pages resolve alike
Row(k) ==
  [title |-> <<"T", "/", "1">>, author |-> <<"A">>,
   pkg |-> <<"M", ",", " ", "S">>,
   url |-> IF k % 2 = 1 THEN OpenUrl1 ELSE OpenUrl2]

\* the book tables: the first n rows of the spreadsheet
BookTables == {[k \in 1..n |-> Row(k)] : n \in 1..MaxBooks}

\* rows with one empty cell, and the spreadsheets of two rows of which one
\* has an empty cell
Columns == {"title", "author", "pkg", "url"}

RowMissing(k, column) ==
  [c \in Columns |-> IF c = column THEN NaN ELSE Row(k)[c]]

MalformedTables ==
  {<<RowMissing(1, c), Row(2)>> : c \in Columns}
    \cup {<<Row(1), RowMissing(2, c)>> : c \in Columns}

\* the final (post-redirect) URLs requests.get(url).url may report
Redirects(url) == IF url = OpenUrl1 THEN {Landing1} ELSE {Landing1, Landing2}

\* parse_book_url on the inputs download_book can call it with, computed
\* once: the landing URLs, titles and authors above, and the two formats
ParseInputs ==
  {<<url, title, author, format_>> :
     url \in {Landing1, Landing2},
     title \in {Row(k).title : k \in 1..MaxBooks} \cup {NaN},
     author \in {Row(k).author : k \in 1..MaxBooks} \cup {NaN},
     format_ \in {PDF, EPUB}}

parse_book_url_of == [a \in ParseInputs |-> parse_book_url(a[1], a[2], a[3], a[4])]

\* response bodies: the empty one and a non-empty one
Contents == {<<>>, <<"x">>}

\* responses of an asset GET that does not raise
Responses == [status_code : StatusCodes, content : Contents]

(***************************************************************************)
(* State.                                                                  *)
(***************************************************************************)
VARIABLES
  book_table,    \* the spreadsheet, a sequence of rows
  get_epub,      \* download_books' get_epub
  max_workers,   \* download_books' max_workers
  books,         \* download_books' list of book dicts
  futures,       \* state of the future of each submitted task
  main_pc,       \* where download_books is: "with" or "returned"
  res,           \* the list download_books returned
  pc,            \* where each download_book invocation is
  frame,         \* the local variables of each download_book invocation
  requests_log,  \* the GETs each invocation issued, in order
  write_log,     \* the paths each invocation opened for writing, in order
  fs,            \* the files under dst_dir: path -> bytes
  dirs,          \* the directories under dst_dir
  run,           \* number of the current run of the program
  prev,          \* what the previous run left: its result and its locals
  resolver       \* a call of parse_book_url on its own: arguments and result

vars == <<book_table, get_epub, max_workers, books, futures, main_pc, res,
          pc, frame, requests_log, write_log, fs, dirs, run, prev, resolver>>

Tasks == 1..Len(books)

\* locals whose success mapping starts with the epub as failed (mutant of
\* NoFrame)
NoFrame_epub_failed ==
  [request_url |-> <<>>, success |-> [pdf |-> "None", epub |-> "False"],
   pdf_download_url |-> <<>>, pdf_fpath |-> <<>>, pdf_request |-> <<>>,
   epub_download_url |-> <<>>, epub_fpath |-> <<>>, epub_request |-> <<>>]

\* the locals of download_book before any of them is assigned
NoFrame ==
  [request_url |-> <<>>, success |-> [pdf |-> "None", epub |-> "None"],
   pdf_download_url |-> <<>>, pdf_fpath |-> <<>>, pdf_request |-> <<>>,
   epub_download_url |-> <<>>, epub_fpath |-> <<>>, epub_request |-> <<>>]

NoPrev == [res |-> <<>>, frame |-> <<>>]

\* no call of parse_book_url outside download_book
NoCall ==
  [url |-> <<>>, title |-> <<>>, author |-> <<>>, format_ |-> <<>>,
   result |-> <<>>]

InitWith(tables) ==
  /\ book_table \in tables
  /\ get_epub \in BOOLEAN
  /\ max_workers \in 1..MaxWorkers
  /\ books = IF book_info_raises(book_table) THEN <<>>
             ELSE book_info_from_table(book_table)
  /\ futures = <<>>
  /\ main_pc = IF book_info_raises(book_table) THEN "raised" ELSE "with"
  /\ res = <<>>
  /\ pc = [i \in 1..Len(books) |-> "call"]
  /\ frame = [i \in 1..Len(books) |-> NoFrame]
  /\ requests_log = [i \in 1..Len(books) |-> <<>>]
  /\ write_log = [i \in 1..Len(books) |-> <<>>]
  /\ fs = <<>>
  /\ dirs = {}
  /\ run = 1
  /\ prev = NoPrev
  /\ resolver = NoCall

Init == InitWith(BookTables)

(***************************************************************************)
(* The ThreadPoolExecutor of download_books.                               *)
(***************************************************************************)
Running(fut) == {i \in 1..Len(fut) : fut[i] = "RUNNING"}

\* a pool that starts a thread for every work item (mutant of idle_worker)
idle_worker_unbounded(fut, workers) == TRUE

\* a worker thread is free to take the next work item: the pool never runs
\* more than max_workers threads
idle_worker(fut, workers) == Cardinality(Running(fut)) < workers

\* a pool in which a task that raises cancels the work items still queued
\* (mutant of set_exception)
set_exception_cancels_queue(fut, i) ==
  [j \in 1..Len(fut) |->
     IF j = i THEN "EXCEPTION"
     ELSE IF fut[j] = "PENDING" THEN "CANCELLED" ELSE fut[j]]

\* a task that raises: the exception is stored in its own future, the worker
\* thread goes on with the queue and nobody reads the future
set_exception(fut, i) == [fut EXCEPT ![i] = "EXCEPTION"]

\* a task that returns
set_result(fut, i) == [fut EXCEPT ![i] = "FINISHED"]

\* leaving the with block without joining the workers, as shutdown(wait=False)
\* would (mutant of shutdown_wait)
shutdown_nowait(fut, n) == Len(fut) = n

\* leaving the with block is shutdown(wait=True): every work item submitted
\* has been run to its end
shutdown_wait(fut, n) ==
  /\ Len(fut) = n
  /\ \A i \in 1..n : fut[i] \in {"FINISHED", "EXCEPTION", "CANCELLED"}

\* executor.submit(download_book, book, ...) for the next book of the list
Submit ==
  /\ main_pc = "with"
  /\ Len(futures) < Len(books)
  /\ futures' = Append(futures, "PENDING")
  /\ UNCHANGED <<book_table, get_epub, max_workers, books, main_pc, res, pc,
                 frame, requests_log, write_log, fs, dirs, run, prev,
                 resolver>>

\* the end of the with block and "return books"
Return ==
  /\ main_pc = "with"
  /\ shutdown_wait(futures, Len(books))
  /\ main_pc' = "returned"
  /\ res' = books
  /\ UNCHANGED <<book_table, get_epub, max_workers, books, futures, pc,
                 frame, requests_log, write_log, fs, dirs, run, prev,
                 resolver>>

(***************************************************************************)
(* download_book(book, dst_dir, get_epub), run by a worker thread for      *)
(* books[i].  Work items leave the queue in the order they were submitted. *)
(***************************************************************************)
book_dir(i) == books[i]["pkg"]

\* a write that goes to one file whatever the path (mutant of write_file)
write_file_shared(files, path, content) ==
  [q \in DOMAIN files \cup {<<"o", "u", "t">>} |->
     IF q = <<"o", "u", "t">> THEN content ELSE files[q]]

\* a write that never reaches the disk (mutant of write_file)
write_file_lost(files, path, content) == files

\* an exists-check that never finds the file (mutant of exists_outcome)
exists_outcome_never(found) == "False"

\* a downloader that writes the body whatever the status (mutant of
\* response_outcome)
response_outcome_any_status(response) ==
  [written |-> TRUE,
   success |-> IF Len(response.content) > 0 THEN "True" ELSE "False"]

\* path.exists()
exists(files, directories, path) ==
  path \in DOMAIN files \/ path \in directories

\* open(path, "wb") and f.write(content): the file holds content afterwards
write_file(files, path, content) ==
  [q \in DOMAIN files \cup {path} |-> IF q = path THEN content ELSE files[q]]

\* lines 87-90 and 103-106: the outcome recorded by the exists-check
exists_outcome(found) == IF found THEN "exists" ELSE "False"

\* lines 92-95 and 108-111: a response is written iff its status is 200, and
\* the outcome is whether f.write returned more than zero, f.write
\* returning the number of bytes written
response_outcome(response) ==
  [written |-> response.status_code = HTTP_OK,
   success |-> IF response.status_code = HTTP_OK /\ Len(response.content) > 0
               THEN "True" ELSE "False"]

\* a downloader that runs the epub block whatever get_epub (mutant of
\* after_pdf)
after_pdf_always_epub == "epub_exists"

\* a downloader without the epub block (mutant of after_pdf)
after_pdf_without_epub == "attach"

\* where download_book goes on after the pdf block (line 97)
after_pdf == IF get_epub THEN "epub_exists" ELSE "attach"

\* a worker takes the work item of book i and runs lines 72-78
Start(i) ==
  /\ i \in 1..Len(futures)
  /\ futures[i] = "PENDING"
  /\ \A j \in 1..(i - 1) : futures[j] # "PENDING"
  /\ idle_worker(futures, max_workers)
  /\ futures' = [futures EXCEPT ![i] = "RUNNING"]
  /\ dirs' = dirs \cup {book_dir(i)}
  /\ frame' = [frame EXCEPT ![i] = NoFrame]
  /\ pc' = [pc EXCEPT ![i] = "landing"]
  /\ UNCHANGED <<book_table, get_epub, max_workers, books, main_pc, res,
                 requests_log, write_log, fs, run, prev,
                 resolver>>

\* line 80, requests.get(book["url"]) returns (a url that is no str makes it
\* raise); lines 82-85, where parse_book_url may raise in its turn
LandingGet(i) ==
  /\ i \in 1..Len(futures)
  /\ futures[i] = "RUNNING"
  /\ pc[i] = "landing"
  /\ books[i]["url"] # NaN
  /\ \E final \in Redirects(books[i]["url"]) :
       LET parsed == parse_book_url_of[<<final, books[i]["title"],
                                         books[i]["author"], PDF>>]
       IN IF parsed.raised = "none"
          THEN /\ frame' = [frame EXCEPT
                              ![i].request_url = final,
                              ![i].pdf_download_url = parsed.download_url,
                              ![i].pdf_fpath =
                                 path_join(book_dir(i), parsed.new_fname)]
               /\ pc' = [pc EXCEPT ![i] = "pdf_exists"]
               /\ futures' = futures
          ELSE /\ frame' = [frame EXCEPT ![i].request_url = final]
               /\ pc' = [pc EXCEPT ![i] = "pdf_parse"]
               /\ futures' = set_exception(futures, i)
  /\ requests_log' = [requests_log EXCEPT
                        ![i] = Append(@, [what |-> "landing",
                                          url |-> books[i]["url"]])]
  /\ UNCHANGED <<book_table, get_epub, max_workers, books, main_pc,
                 res, write_log, fs, dirs, run, prev,
                 resolver>>

\* line 80, requests.get(book["url"]) raises: a network error, or the
\* MissingSchema of a url that is no str
LandingRaise(i) ==
  /\ i \in 1..Len(futures)
  /\ futures[i] = "RUNNING"
  /\ pc[i] = "landing"
  /\ requests_log' = [requests_log EXCEPT
                        ![i] = Append(@, [what |-> "landing",
                                          url |-> books[i]["url"]])]
  /\ futures' = set_exception(futures, i)
  /\ UNCHANGED <<book_table, get_epub, max_workers, books, main_pc, res, pc,
                 frame, write_log, fs, dirs, run, prev,
                 resolver>>

\* lines 87-90
PdfExists(i) ==
  /\ i \in 1..Len(futures)
  /\ futures[i] = "RUNNING"
  /\ pc[i] = "pdf_exists"
  /\ LET outcome == exists_outcome(exists(fs, dirs, frame[i].pdf_fpath))
     IN /\ frame' = [frame EXCEPT ![i].success.pdf = outcome]
        /\ pc' = [pc EXCEPT
                    ![i] = IF outcome = "exists" THEN after_pdf ELSE "pdf_get"]
  /\ UNCHANGED <<book_table, get_epub, max_workers, books, futures, main_pc,
                 res, requests_log, write_log, fs, dirs, run, prev,
                 resolver>>

\* lines 91-95, requests.get(pdf_download_url) returns
PdfGet(i) ==
  /\ i \in 1..Len(futures)
  /\ futures[i] = "RUNNING"
  /\ pc[i] = "pdf_get"
  /\ \E response \in Responses :
       LET outcome == response_outcome(response)
       IN /\ frame' = [frame EXCEPT ![i].pdf_request = <<response>>,
                                    ![i].success.pdf = outcome.success]
          /\ fs' = IF outcome.written
                   THEN write_file(fs, frame[i].pdf_fpath, response.content)
                   ELSE fs
          /\ write_log' = IF outcome.written
                          THEN [write_log EXCEPT
                                  ![i] = Append(@, frame[i].pdf_fpath)]
                          ELSE write_log
  /\ requests_log' = [requests_log EXCEPT
                        ![i] = Append(@, [what |-> "pdf",
                                          url |-> frame[i].pdf_download_url])]
  /\ pc' = [pc EXCEPT ![i] = after_pdf]
  /\ UNCHANGED <<book_table, get_epub, max_workers, books, futures, main_pc,
                 res, dirs, run, prev,
                 resolver>>

\* line 91, requests.get(pdf_download_url) raises a network error
PdfRaise(i) ==
  /\ i \in 1..Len(futures)
  /\ futures[i] = "RUNNING"
  /\ pc[i] = "pdf_get"
  /\ requests_log' = [requests_log EXCEPT
                        ![i] = Append(@, [what |-> "pdf",
                                          url |-> frame[i].pdf_download_url])]
  /\ futures' = set_exception(futures, i)
  /\ UNCHANGED <<book_table, get_epub, max_workers, books, main_pc, res, pc,
                 frame, write_log, fs, dirs, run, prev,
                 resolver>>

\* lines 97-106
EpubExists(i) ==
  /\ i \in 1..Len(futures)
  /\ futures[i] = "RUNNING"
  /\ pc[i] = "epub_exists"
  /\ LET parsed == parse_book_url_of[<<frame[i].request_url,
                                       books[i]["title"],
                                       books[i]["author"], EPUB>>]
         fpath == path_join(book_dir(i), parsed.new_fname)
         outcome == exists_outcome(exists(fs, dirs, fpath))
     IN /\ frame' = [frame EXCEPT
                       ![i].epub_download_url = parsed.download_url,
                       ![i].epub_fpath = fpath,
                       ![i].success.epub = outcome]
        /\ pc' = [pc EXCEPT
                    ![i] = IF outcome = "exists" THEN "attach" ELSE "epub_get"]
  /\ UNCHANGED <<book_table, get_epub, max_workers, books, futures, main_pc,
                 res, requests_log, write_log, fs, dirs, run, prev,
                 resolver>>

\* lines 107-111, requests.get(epub_download_url) returns
EpubGet(i) ==
  /\ i \in 1..Len(futures)
  /\ futures[i] = "RUNNING"
  /\ pc[i] = "epub_get"
  /\ \E response \in Responses :
       LET outcome == response_outcome(response)
       IN /\ frame' = [frame EXCEPT ![i].epub_request = <<response>>,
                                    ![i].success.epub = outcome.success]
          /\ fs' = IF outcome.written
                   THEN write_file(fs, frame[i].epub_fpath, response.content)
                   ELSE fs
          /\ write_log' = IF outcome.written
                          THEN [write_log EXCEPT
                                  ![i] = Append(@, frame[i].epub_fpath)]
                          ELSE write_log
  /\ requests_log' = [requests_log EXCEPT
                        ![i] = Append(@, [what |-> "epub",
                                          url |-> frame[i].epub_download_url])]
  /\ pc' = [pc EXCEPT ![i] = "attach"]
  /\ UNCHANGED <<book_table, get_epub, max_workers, books, futures, main_pc,
                 res, dirs, run, prev,
                 resolver>>

\* line 107, requests.get(epub_download_url) raises a network error
EpubRaise(i) ==
  /\ i \in 1..Len(futures)
  /\ futures[i] = "RUNNING"
  /\ pc[i] = "epub_get"
  /\ requests_log' = [requests_log EXCEPT
                        ![i] = Append(@, [what |-> "epub",
                                          url |-> frame[i].epub_download_url])]
  /\ futures' = set_exception(futures, i)
  /\ UNCHANGED <<book_table, get_epub, max_workers, books, main_pc, res, pc,
                 frame, write_log, fs, dirs, run, prev,
                 resolver>>

\* lines 112-113: book["success"] = success; return True
Attach(i) ==
  /\ i \in 1..Len(futures)
  /\ futures[i] = "RUNNING"
  /\ pc[i] = "attach"
  /\ books' = [books EXCEPT
                 ![i] = [k \in DOMAIN books[i] \cup {"success"} |->
                           IF k = "success" THEN frame[i].success
                           ELSE books[i][k]]]
  /\ futures' = set_result(futures, i)
  /\ pc' = [pc EXCEPT ![i] = "return"]
  /\ UNCHANGED <<book_table, get_epub, max_workers, main_pc, res, frame,
                 requests_log, write_log, fs, dirs, run, prev,
                 resolver>>

Next ==
  \/ Submit
  \/ Return
  \/ \E i \in Tasks : Start(i)
  \/ \E i \in Tasks : LandingGet(i)
  \/ \E i \in Tasks : LandingRaise(i)
  \/ \E i \in Tasks : PdfExists(i)
  \/ \E i \in Tasks : PdfGet(i)
  \/ \E i \in Tasks : PdfRaise(i)
  \/ \E i \in Tasks : EpubExists(i)
  \/ \E i \in Tasks : EpubGet(i)
  \/ \E i \in Tasks : EpubRaise(i)
  \/ \E i \in Tasks : Attach(i)

Spec == Init /\ [][Next]_vars

(***************************************************************************)
(* Fair scheduling: the main thread and every worker thread take their     *)
(* next step, and a GET that was issued returns or raises.                 *)
(***************************************************************************)
FairSpec == Spec /\ WF_vars(Next)

(***************************************************************************)
(* The program run again on the same spreadsheet and destination           *)
(* directory: lines 144-159 build the book list anew, the files stay.      *)
(***************************************************************************)
Rerun ==
  /\ main_pc = "returned"
  /\ run < MaxRuns
  /\ run' = run + 1
  /\ prev' = [res |-> res, frame |-> frame]
  /\ books' = book_info_from_table(book_table)
  /\ futures' = <<>>
  /\ main_pc' = "with"
  /\ res' = <<>>
  /\ pc' = [i \in Tasks |-> "call"]
  /\ frame' = [i \in Tasks |-> NoFrame]
  /\ requests_log' = [i \in Tasks |-> <<>>]
  /\ write_log' = [i \in Tasks |-> <<>>]
  /\ UNCHANGED <<book_table, get_epub, max_workers, fs, dirs, resolver>>

\* runs over a spreadsheet of one row
InitRerun == InitWith({<<Row(k)>> : k \in 1..MaxBooks})

NextRerun == Next \/ Rerun

RerunSpec == InitRerun /\ [][NextRerun]_vars

(***************************************************************************)
(* Runs over a spreadsheet with an empty cell.                             *)
(***************************************************************************)
InitCatalog == InitWith(MalformedTables)

CatalogSpec == InitCatalog /\ [][Next]_vars

(***************************************************************************)
(* Vocabulary of the properties.                                           *)
(***************************************************************************)
Submitted == 1..Len(futures)

\* the landing-page GET of book k raised
LandingFailed(k) ==
  k \in Submitted /\ futures[k] = "EXCEPTION" /\ pc[k] = "landing"

\* the asset GET of book k for the pdf / the epub raised
PdfFetchRaised(k) ==
  k \in Submitted /\ futures[k] = "EXCEPTION" /\ pc[k] = "pdf_get"

EpubFetchRaised(k) ==
  k \in Submitted /\ futures[k] = "EXCEPTION" /\ pc[k] = "epub_get"

\* the GETs of one kind that invocation i issued
Gets(i, what) ==
  {n \in 1..Len(requests_log[i]) : requests_log[i][n].what = what}

\* the outcome of a format as the book's own exists-check and response
\* determine it: skipped when no GET was needed, else by the response
OwnOutcome(request) ==
  IF request = <<>> THEN "exists"
  ELSE IF request[1].status_code = 200 /\ request[1].content # <<>>
       THEN "True" ELSE "False"

OwnOutcomes(j) ==
  [pdf |-> OwnOutcome(frame[j].pdf_request),
   epub |-> IF get_epub THEN OwnOutcome(frame[j].epub_request) ELSE "None"]

(***************************************************************************)
(* C1: when the landing-page GET of a book k raises, every other book is   *)
(* still submitted and run to its end: at the return of download_books no  *)
(* other task is pending, running or cancelled, a task that did not        *)
(* finish raised in a GET of its own, and every task that finished has     *)
(* attached to its book the outcomes its own checks and responses give.    *)
(***************************************************************************)
C1_OthersRunToCompletion ==
  main_pc = "returned" =>
    \A k \in Tasks : LandingFailed(k) =>
      \A j \in Tasks \ {k} :
        /\ j \in Submitted
        /\ futures[j] \in {"FINISHED", "EXCEPTION"}
        /\ futures[j] = "EXCEPTION" => pc[j] \in {"landing", "pdf_get", "epub_get"}
        /\ futures[j] = "FINISHED" =>
             /\ "success" \in DOMAIN res[j]
             /\ res[j]["success"] = OwnOutcomes(j)

C1_Witness ==
  /\ main_pc = "returned"
  /\ \E k \in Tasks : \E j \in Tasks \ {k} :
       /\ LandingFailed(k)
       /\ futures[j] = "FINISHED"
       /\ res[j]["success"].pdf = "True"

(***************************************************************************)
(* C2: when the landing-page GET of book k raises, the returned list       *)
(* carries an outcome for book k, and it differs from the outcome of every *)
(* book whose landing page resolved and whose asset fetch failed.          *)
(***************************************************************************)
Outcome(k) == IF "success" \in DOMAIN res[k] THEN <<res[k]["success"]>> ELSE <<>>

AssetFetchFailed(j) ==
  \/ PdfFetchRaised(j)
  \/ EpubFetchRaised(j)
  \/ /\ "success" \in DOMAIN res[j]
     /\ "False" \in {res[j]["success"].pdf, res[j]["success"].epub}

C2_FailedToResolveRecorded ==
  main_pc = "returned" =>
    \A k \in Tasks : LandingFailed(k) =>
      /\ Outcome(k) # <<>>
      /\ \A j \in Tasks : AssetFetchFailed(j) => Outcome(j) # Outcome(k)

(***************************************************************************)
(* C3: an asset GET that raises is recorded as Failed for its format only: *)
(* the book's outcome mapping is attached, holds "False" for that format,  *)
(* and the other requested format was attempted.                           *)
(***************************************************************************)
C3_AssetRaiseRecordedAsFailed ==
  main_pc = "returned" =>
    \A i \in Tasks :
      /\ PdfFetchRaised(i) =>
           /\ "success" \in DOMAIN res[i]
           /\ res[i]["success"].pdf = "False"
           /\ get_epub => res[i]["success"].epub \in {"exists", "True", "False"}
      /\ EpubFetchRaised(i) =>
           /\ "success" \in DOMAIN res[i]
           /\ res[i]["success"].epub = "False"
           /\ res[i]["success"].pdf \in {"exists", "True", "False"}

(***************************************************************************)
(* C4: at every moment the number of download_book invocations that have   *)
(* started and not finished is at most max_workers.                        *)
(***************************************************************************)
C4_AtMostMaxWorkersInFlight ==
  Cardinality({i \in Submitted : futures[i] = "RUNNING"}) <= max_workers

C4_Witness ==
  /\ Cardinality({i \in Submitted : futures[i] = "RUNNING"}) = max_workers
  /\ \E j \in Submitted : futures[j] = "PENDING"

(***************************************************************************)
(* C5: download_books returns only after every submitted task has          *)
(* finished: when it has returned, every book was submitted and no task is *)
(* pending or running; and under fair scheduling, with GETs that return or *)
(* raise, it does return.                                                  *)
(***************************************************************************)
C5_ReturnsAfterAllTasks ==
  /\ [](main_pc = "returned" =>
          /\ Len(futures) = Len(book_table)
          /\ \A i \in Submitted : futures[i] \notin {"PENDING", "RUNNING"})
  /\ <>(main_pc = "returned")

C5_Witness ==
  /\ main_pc = "returned"
  /\ Len(futures) > max_workers
  /\ \E i \in Submitted : futures[i] = "FINISHED"
  /\ \E i \in Submitted : futures[i] = "EXCEPTION"

(***************************************************************************)
(* C6: the list download_books returns has one book per row of the         *)
(* catalog, the book of row i at position i, whatever the order in which   *)
(* the workers got on; the outcomes are attached to these records in       *)
(* place: position i holds the outcomes invocation i recorded, and none if *)
(* invocation i raised.                                                    *)
(***************************************************************************)
C6_ReturnedInCatalogOrder ==
  main_pc = "returned" =>
    /\ Len(res) = Len(book_table)
    /\ \A i \in 1..Len(book_table) :
         /\ res[i]["title"] = book_table[i].title
         /\ res[i]["author"] = book_table[i].author
         /\ res[i]["url"] = book_table[i].url
         /\ IF futures[i] = "FINISHED"
            THEN /\ "success" \in DOMAIN res[i]
                 /\ res[i]["success"] = frame[i].success
            ELSE "success" \notin DOMAIN res[i]

\* the second book overtook the first: the first found both files written
C6_Witness ==
  /\ main_pc = "returned"
  /\ Len(res) >= 2
  /\ res[1]["url"] # res[2]["url"]
  /\ futures[1] = "FINISHED" /\ futures[2] = "FINISHED"
  /\ res[1]["success"] = [pdf |-> "exists", epub |-> "exists"]
  /\ res[2]["success"] = [pdf |-> "True", epub |-> "True"]

(***************************************************************************)
(* Vocabulary of the per-format properties.                                *)
(***************************************************************************)
\* the formats download_book is asked for
Requested == IF get_epub THEN {"pdf", "epub"} ELSE {"pdf"}

RequestOf(fr, f) == IF f = "pdf" THEN fr.pdf_request ELSE fr.epub_request

PathOf(fr, f) == IF f = "pdf" THEN fr.pdf_fpath ELSE fr.epub_fpath

\* invocation i is past the exists-check of format f
Checked(i, f) ==
  IF f = "pdf"
  THEN pc[i] \in {"pdf_get", "epub_exists", "epub_get", "attach", "return"}
  ELSE pc[i] \in {"epub_get", "attach", "return"}

\* the previous run left the file of format f of book i: it found it, or
\* it got an HTTP 200 response and wrote it
StoredByPrev(i, f) ==
  \/ prev.frame[i].success[f] = "exists"
  \/ /\ RequestOf(prev.frame[i], f) # <<>>
     /\ RequestOf(prev.frame[i], f)[1].status_code = 200

\* the landing page of book i resolved in this run as in the previous one
SameLanding(i) ==
  /\ frame[i].request_url # <<>>
  /\ frame[i].request_url = prev.frame[i].request_url

(***************************************************************************)
(* C7 as stated: a second run of download_book for the same book, its      *)
(* landing page resolving as in the first run, issues no asset GET and     *)
(* ends with "exists" for every requested format, whatever the asset       *)
(* responses of the first run were.                                        *)
(***************************************************************************)
C7_SecondRunSkipsAll ==
  run >= 2 =>
    \A i \in Tasks : SameLanding(i) =>
      \A f \in Requested :
        /\ Gets(i, f) = {}
        /\ pc[i] \in {"attach", "return"} => frame[i].success[f] = "exists"

(***************************************************************************)
(* C7 amended: in a second run whose landing page resolves as in the first *)
(* run, every requested format whose file the first run found or wrote     *)
(* (HTTP 200) gets "exists" and no asset GET.                              *)
(***************************************************************************)
C7_SecondRunSkipsStored ==
  run >= 2 =>
    \A i \in Tasks : SameLanding(i) =>
      \A f \in Requested : StoredByPrev(i, f) =>
        /\ Gets(i, f) = {}
        /\ Checked(i, f) => frame[i].success[f] = "exists"
        /\ futures[i] = "FINISHED" => books[i]["success"][f] = "exists"

C7_Witness ==
  /\ run = 2
  /\ get_epub
  /\ SameLanding(1)
  /\ futures[1] = "FINISHED"
  /\ prev.frame[1].pdf_request # <<>>
  /\ prev.frame[1].pdf_request[1].status_code = 200
  /\ prev.frame[1].epub_request # <<>>
  /\ prev.frame[1].epub_request[1].status_code = 200
  /\ books[1]["success"] = [pdf |-> "exists", epub |-> "exists"]
  /\ Len(requests_log[1]) = 1

(***************************************************************************)
(* C8: a requested format whose target file exists when download_book      *)
(* checks it gets the outcome "exists"; the check goes on past the GET     *)
(* without a request or a write, and an invocation whose outcome for a     *)
(* format is "exists" has issued no asset GET for it and has not written   *)
(* its file.                                                               *)
(***************************************************************************)
C8_CheckStep(i) ==
  /\ (/\ pc[i] = "pdf_exists"
      /\ pc'[i] # "pdf_exists"
      /\ frame[i].pdf_fpath \in DOMAIN fs)
     => /\ frame'[i].success.pdf = "exists"
        /\ pc'[i] \in {"epub_exists", "attach"}
        /\ fs' = fs
        /\ requests_log' = requests_log
        /\ write_log' = write_log
  /\ (/\ pc[i] = "epub_exists"
      /\ pc'[i] # "epub_exists"
      /\ frame'[i].epub_fpath \in DOMAIN fs)
     => /\ frame'[i].success.epub = "exists"
        /\ pc'[i] = "attach"
        /\ fs' = fs
        /\ requests_log' = requests_log
        /\ write_log' = write_log

C8_Skipped(i) ==
  \A f \in {"pdf", "epub"} :
    frame[i].success[f] = "exists" =>
      /\ Gets(i, f) = {}
      /\ \A n \in 1..Len(write_log[i]) : write_log[i][n] # PathOf(frame[i], f)
      /\ futures[i] = "FINISHED" => books[i]["success"][f] = "exists"

C8_ExistingFileSkipped ==
  /\ [][\A i \in Tasks : C8_CheckStep(i)]_vars
  /\ [](\A i \in Tasks : C8_Skipped(i))

C8_Witness ==
  \E i \in Submitted :
    /\ futures[i] = "FINISHED"
    /\ books[i]["success"] = [pdf |-> "exists", epub |-> "exists"]
    /\ frame[i].pdf_fpath \in DOMAIN fs
    /\ frame[i].epub_fpath \in DOMAIN fs

(***************************************************************************)
(* C9: for a requested format whose file did not exist at the check, an    *)
(* asset response with status 200 is written to the target file, and the   *)
(* outcome is "True" if the body has more than zero bytes and "False"      *)
(* otherwise; with any other status the outcome is "False" and the         *)
(* invocation neither creates nor writes a file.                           *)
(***************************************************************************)
C9_ResponseStep(i, f, at) ==
  (pc[i] = at /\ pc'[i] # at) =>
    LET response == RequestOf(frame'[i], f)[1]
        path == PathOf(frame[i], f)
    IN IF response.status_code = 200
       THEN /\ path \in DOMAIN fs'
            /\ fs'[path] = response.content
            /\ write_log'[i] = Append(write_log[i], path)
            /\ frame'[i].success[f] =
                 IF Len(response.content) > 0 THEN "True" ELSE "False"
       ELSE /\ frame'[i].success[f] = "False"
            /\ fs' = fs
            /\ write_log' = write_log

C9_ResponseDecidesOutcome ==
  [][\A i \in Tasks : /\ C9_ResponseStep(i, "pdf", "pdf_get")
                      /\ C9_ResponseStep(i, "epub", "epub_get")]_vars

C9_Witness ==
  \E i \in Tasks :
    /\ pc[i] = "attach"
    /\ frame[i].pdf_request = <<[status_code |-> 200, content |-> <<>>]>>
    /\ frame[i].success.pdf = "False"
    /\ fs[frame[i].pdf_fpath] = <<>>
    /\ frame[i].epub_request = <<[status_code |-> 404, content |-> <<"x">>]>>
    /\ frame[i].success.epub = "False"
    /\ frame[i].epub_fpath \notin DOMAIN fs

(***************************************************************************)
(* C10: parse_book_url replaces only the first occurrence of "book" in the *)
(* decoded landing URL, by "content/pdf" or "download/epub", keeps any     *)
(* later occurrence, and appends "." and the format.                       *)
(***************************************************************************)
\* s with its first occurrence of old replaced by new
RECURSIVE replace_first(_, _, _)
replace_first(s, old, new) ==
  IF Len(s) < Len(old) THEN s
  ELSE IF SubSeq(s, 1, Len(old)) = old
       THEN new \o SubSeq(s, Len(old) + 1, Len(s))
       ELSE <<Head(s)>> \o replace_first(Tail(s), old, new)

FirstReplaced(url, prefix, format_) ==
  replace_first(unquote(url), BOOK, prefix \o format_) \o DOT \o format_

C10_ReplacesFirstOnly ==
  \A i \in Tasks :
    /\ frame[i].pdf_download_url # <<>> =>
         frame[i].pdf_download_url
           = FirstReplaced(frame[i].request_url, CONTENT, PDF)
    /\ frame[i].epub_download_url # <<>> =>
         frame[i].epub_download_url
           = FirstReplaced(frame[i].request_url, DOWNLOAD, EPUB)

(***************************************************************************)
(* parse_book_url called on its own, as its docstring offers it: the       *)
(* arguments are drawn from the sets below and the call returns or raises. *)
(***************************************************************************)
\* a landing URL without the text "book": /x%20y
LandingPlain == <<"/", "x", "%", "2", "0", "y">>

ResolverUrls == {Landing1, Landing2, LandingPlain}

ResolverTitles == {<<"T", "/", "1">>, <<"T">>, <<"/", "/">>}

ResolverAuthors == {<<"A">>, <<"A", "/", "B">>}

\* pdf, epub, PDF, Epub, mobi, MOBI
ResolverFormats ==
  {PDF, EPUB, <<"P", "D", "F">>, <<"E", "p", "u", "b">>,
   <<"m", "o", "b", "i">>, <<"M", "O", "B", "I">>}

\* no download is under way
InitResolver ==
  /\ book_table = <<>>
  /\ get_epub = FALSE
  /\ max_workers = 1
  /\ books = <<>>
  /\ futures = <<>>
  /\ main_pc = "resolver"
  /\ res = <<>>
  /\ pc = <<>>
  /\ frame = <<>>
  /\ requests_log = <<>>
  /\ write_log = <<>>
  /\ fs = <<>>
  /\ dirs = {}
  /\ run = 1
  /\ prev = NoPrev
  /\ resolver \in [url : ResolverUrls, title : ResolverTitles,
                   author : ResolverAuthors, format_ : ResolverFormats,
                   result : {<<>>}]

\* lines 13-49: the call returns its pair or raises ValueError
Resolve ==
  /\ main_pc = "resolver"
  /\ resolver.result = <<>>
  /\ resolver' = [resolver EXCEPT
                    !.result = <<parse_book_url(resolver.url, resolver.title,
                                                resolver.author,
                                                resolver.format_)>>]
  /\ UNCHANGED <<book_table, get_epub, max_workers, books, futures, main_pc,
                 res, pc, frame, requests_log, write_log, fs, dirs, run, prev>>

ResolverSpec == InitResolver /\ [][Resolve]_vars

(***************************************************************************)
(* C11: a call of the resolver with a format other than pdf or epub, such  *)
(* as "mobi", ends in the unsupported-format error, returns no (URL, file  *)
(* name) pair and issues no network request.                               *)
(***************************************************************************)
Mobi == {<<"m", "o", "b", "i">>, <<"M", "O", "B", "I">>}

C11_UnsupportedFormatRaises ==
  (resolver.result # <<>> /\ resolver.format_ \in Mobi) =>
    /\ resolver.result[1].raised = "ValueError"
    /\ resolver.result[1].download_url = <<>>
    /\ resolver.result[1].new_fname = <<>>
    /\ requests_log = <<>>

C11_Witness ==
  /\ resolver.format_ = <<"m", "o", "b", "i">>
  /\ resolver.url = Landing1
  /\ resolver.result # <<>>
  /\ resolver.result[1].raised = "ValueError"

(***************************************************************************)
(* C12: whatever the title and the author, also with "/" in them, the file *)
(* name parse_book_url returns holds no "/", so that the path made of a    *)
(* package directory and the file name names a file directly inside that   *)
(* directory.                                                              *)
(***************************************************************************)
PackageDir == <<"M", "_", "S">>

C12_FilenameHasNoSeparator ==
  (resolver.result # <<>> /\ resolver.result[1].raised = "none") =>
    LET fname == resolver.result[1].new_fname
    IN /\ \A k \in 1..Len(fname) : fname[k] # "/"
       /\ os_path_split(path_join(PackageDir, fname)) = <<PackageDir, fname>>

C12_Witness ==
  /\ resolver.title = <<"/", "/">>
  /\ resolver.author = <<"A", "/", "B">>
  /\ resolver.url = Landing2
  /\ resolver.result # <<>>
  /\ resolver.result[1].raised = "none"
  /\ Len(resolver.result[1].new_fname) > 0

(***************************************************************************)
(* C13: when a row of the catalog lacks its title, author, package name or *)
(* URL, reading the catalog fails as a whole before any download_book task *)
(* is submitted: no task is submitted, no file is downloaded and the run   *)
(* does not return as if nothing had happened.                             *)
(***************************************************************************)
HasMissing(table) ==
  \E k \in 1..Len(table) : \E c \in Columns : table[k][c] = NaN

C13_MalformedCatalogFailsRead ==
  HasMissing(book_table) =>
    /\ futures = <<>>
    /\ fs = <<>>
    /\ main_pc # "returned"

(***************************************************************************)
(* C14: within one run the outcome of each format is set at most once, and *)
(* only when the attempt or the skip of that format has completed: no      *)
(* value is recorded for a format while its attempt is still to finish.    *)
(* Stated on the success mapping of lines 75-111: a step that changes the  *)
(* value of a format changes it from None, and leaves the format skipped   *)
(* or with the response of its GET received.                               *)
(***************************************************************************)
Formats == {"pdf", "epub"}

\* the attempt or the skip of format f is over in the locals fr
Completed(fr, f) == fr.success[f] = "exists" \/ RequestOf(fr, f) # <<>>

C14_OutcomeSetOnceAfterAttempt ==
  [][\A i \in Tasks : \A f \in Formats :
       frame'[i].success[f] # frame[i].success[f] =>
         /\ frame[i].success[f] = "None"
         /\ Completed(frame'[i], f)]_vars

(***************************************************************************)
(* C14, amended: within one run the outcome mapping is attached to the     *)
(* book record at most once, when the attempt or the skip of every         *)
(* requested format has completed, and nothing else of the record changes; *)
(* until then the outcomes live in the invocation's working mapping, which *)
(* holds False for a format from its failed exists-check on, while the GET *)
(* of that format is still to return.                                      *)
(***************************************************************************)
GetStep(f) == IF f = "pdf" THEN "pdf_get" ELSE "epub_get"

C14_RecordAttachedOnce ==
  [][/\ \A i \in Tasks :
          books'[i] # books[i] =>
            /\ "success" \notin DOMAIN books[i]
            /\ DOMAIN books'[i] = DOMAIN books[i] \cup {"success"}
            /\ \A k \in DOMAIN books[i] : books'[i][k] = books[i][k]
            /\ books'[i]["success"] = frame[i].success
            /\ \A f \in Requested : Completed(frame[i], f)
            /\ \A f \in Formats \ Requested : frame[i].success[f] = "None"
     /\ \A i \in Submitted : \A f \in Formats :
          pc[i] = GetStep(f) =>
            frame[i].success[f] = "False" /\ ~Completed(frame[i], f)]_vars

C14_Witness ==
  /\ get_epub
  /\ \E i \in Submitted :
       /\ "success" \in DOMAIN books[i]
       /\ books[i]["success"].pdf = "True"
       /\ books[i]["success"].epub = "False"
       /\ frame[i].epub_request # <<>>

(***************************************************************************)
(* C15: an invocation of download_book issues one landing-page GET, exactly *)
(* one once it is over, and at most one asset GET for each requested       *)
(* format and none for a format not requested, a fetch that failed not     *)
(* being tried again: one to three GETs in all, at most two without the    *)
(* epub; and it writes at most one file for each requested format.         *)
(***************************************************************************)
Over(i) == futures[i] \in {"FINISHED", "EXCEPTION"}

\* the writes of invocation i to the file of format f
Writes(i, f) ==
  {n \in 1..Len(write_log[i]) : write_log[i][n] = PathOf(frame[i], f)}

C15_GetsAndWritesBounded ==
  \A i \in Submitted :
    /\ Cardinality(Gets(i, "landing")) <= 1
    /\ Over(i) => Cardinality(Gets(i, "landing")) = 1
    /\ \A f \in Requested : Cardinality(Gets(i, f)) <= 1
    /\ \A f \in Formats \ Requested : Gets(i, f) = {}
    /\ \A n \in 1..Len(requests_log[i]) :
         requests_log[i][n].what \in {"landing"} \cup Requested
    /\ Len(requests_log[i]) <= 1 + Cardinality(Requested)
    /\ Len(requests_log[i]) <= 3
    /\ Over(i) => Len(requests_log[i]) >= 1
    /\ \A f \in Requested : Cardinality(Writes(i, f)) <= 1
    /\ \A n \in 1..Len(write_log[i]) :
         \E f \in Requested : write_log[i][n] = PathOf(frame[i], f)
    /\ Len(write_log[i]) <= Cardinality(Requested)

C15_Witness ==
  \E i \in Submitted :
    /\ futures[i] = "FINISHED"
    /\ Len(requests_log[i]) = 3
    /\ Len(write_log[i]) = 2
    /\ \E j \in Submitted : PdfFetchRaised(j) /\ Len(requests_log[j]) = 2

(***************************************************************************)
(* C16: in every interleaving of the workers of one run, each worker       *)
(* writes only the files at the target paths of its own book, and no two   *)
(* workers ever write the same file, rows that share title, author,        *)
(* package and landing URL and pass the exists-check together included.    *)
(***************************************************************************)
Written(i) == {write_log[i][n] : n \in 1..Len(write_log[i])}

Changed(files, files2) ==
  {q \in DOMAIN files2 : q \notin DOMAIN files \/ files2[q] # files[q]}

HasExtension(path, ext) ==
  Len(path) >= Len(ext) /\ SubSeq(path, Len(path) - Len(ext) + 1, Len(path)) = ext

C17_EpubNotRequested ==
  /\ ~get_epub =>
       /\ \A i \in Submitted :
            /\ frame[i].success.epub = "None"
            /\ frame[i].epub_download_url = <<>>
            /\ frame[i].epub_fpath = <<>>
            /\ frame[i].epub_request = <<>>
            /\ Gets(i, "epub") = {}
            /\ "success" \in DOMAIN books[i] =>
                 books[i]["success"].epub = "None"
       /\ \A q \in DOMAIN fs : ~HasExtension(q, DOT \o EPUB)
  /\ \A i \in Submitted :
       futures[i] = "FINISHED" =>
         /\ "success" \in DOMAIN books[i]
         /\ books[i]["success"].pdf \in {"exists", "True", "False"}
         /\ frame[i].pdf_fpath # <<>>

C17_Witness ==
  /\ ~get_epub
  /\ main_pc = "returned"
  /\ \E i \in Submitted :
       /\ futures[i] = "FINISHED"
       /\ books[i]["success"].pdf = "True"
       /\ books[i]["success"].epub = "None"
       /\ frame[i].pdf_fpath \in DOMAIN fs

(***************************************************************************)
(* C18: after any sequence of runs, a format whose outcome the last        *)
(* invocation recorded as False on the book has no file at its target      *)
(* path; and a run whose landing page resolves as in the run before finds  *)
(* a format existing only if that run ended with the outcome True or       *)
(* "exists" for it, an HTTP 200 response with an empty body included.      *)
(***************************************************************************)
C18_FailedLeavesNoFile ==
  \A i \in Submitted : \A f \in Requested :
    /\ ("success" \in DOMAIN books[i] /\ books[i]["success"][f] = "False")
         => PathOf(frame[i], f) \notin DOMAIN fs
    /\ (run >= 2 /\ SameLanding(i) /\ frame[i].success[f] = "exists")
         => prev.frame[i].success[f] \in {"True", "exists"}

====
